---- MODULE Spec2Model ----
(***************************************************************************)
(* The dashboard page script of the financial research agent               *)
(* (examples/financial_research_agent/static/script.js): the click handler  *)
(* of the Analyze button with its SSE read loop, the DOM regions it writes, *)
(* and the side-channel loaders (chart, history list, history detail).      *)
(*                                                                         *)
(* Text is a sequence of characters.  The characters are tokens: "\n" is    *)
(* the newline, "event: " and "data: " are the two line prefixes the read   *)
(* loop matches, every other token stands for a run of characters that      *)
(* holds no newline.  The response body is a sequence of bytes; every       *)
(* character is one byte except E_ACUTE, which UTF-8 encodes as the two     *)
(* bytes LEAD, CONT.                                                       *)
(***************************************************************************)
EXTENDS Integers, Sequences, FiniteSets, TLC

\* ------------------------------------------------------------------ bounds

\* Spec: the number of submissions (click handlers entered with a non-empty
\* query) and the number of frames the backend writes, over all streams.
MaxRuns == 2
MaxFrames == 2
\* SpecOneRun: the number of frames the backend writes to the one stream.
MaxStreamFrames == 3
\* SpecSide: the submissions, the frames written, and the history requests
\* of each kind (list, detail) the user starts.
MaxSideRuns == 2
MaxSideFrames == 1
MaxLoads == 1
\* SpecRender: the words of a stored summary.
MaxWords == 2
\* Number of record separators the backend gets ahead of the reader.
MaxInFlight == 1
\* SpecChart: the number of submissions.
MaxChartRuns == 3

\* The click handlers of a session, by the order of the clicks.
Runs ==
    1..(IF MaxChartRuns >= MaxRuns /\ MaxChartRuns >= MaxSideRuns THEN MaxChartRuns
        ELSE IF MaxRuns >= MaxSideRuns THEN MaxRuns ELSE MaxSideRuns)

\* ---------------------------------------------------------- text helpers

NL == "\n"
EVENT_PREFIX == "event: "
DATA_PREFIX == "data: "
E_ACUTE == "e-acute"
LEAD == "0xC3"
CONT == "0xA9"
REPLACEMENT == "U+FFFD"
NoMatch == <<"no match">>

Last(s) == s[Len(s)]
Front(s) == SubSeq(s, 1, Len(s) - 1)


IsPrefix(p, s) == Len(p) <= Len(s) /\ SubSeq(s, 1, Len(p)) = p

\* ------------------------------------------------------------ TextDecoder

\* decoder.decode(value, { stream: true }): the bytes of `chunk` after the
\* bytes `pending` held back from the chunk before; a lead byte at the end
\* of the input is held back for the next call.
RECURSIVE Utf8(_)
Utf8(bytes) ==
    IF bytes = <<>> THEN [text |-> <<>>, pending |-> <<>>]
    ELSE IF Head(bytes) = LEAD
    THEN IF Len(bytes) = 1 THEN [text |-> <<>>, pending |-> <<LEAD>>]
         ELSE IF bytes[2] = CONT
         THEN LET rest == Utf8(Tail(Tail(bytes)))
              IN  [rest EXCEPT !.text = <<E_ACUTE>> \o @]
         ELSE LET rest == Utf8(Tail(bytes))
              IN  [rest EXCEPT !.text = <<REPLACEMENT>> \o @]
    ELSE LET rest == Utf8(Tail(bytes))
         IN  [rest EXCEPT !.text =
                  <<IF Head(bytes) = CONT THEN REPLACEMENT ELSE Head(bytes)>> \o @]

\* The same call without the stream option: nothing is held back, a lead
\* byte at the end of the chunk decodes to the replacement character.
DecodeNoStream(pending, chunk) ==
    LET r == Utf8(chunk)
    IN  [text |-> r.text \o (IF r.pending = <<>> THEN <<>> ELSE <<REPLACEMENT>>),
         pending |-> <<>>]

Decode(pending, chunk) == Utf8(pending \o chunk)

\* The UTF-8 encoding of a text (what the backend writes).
RECURSIVE Encode(_)
Encode(text) ==
    IF text = <<>> THEN <<>>
    ELSE (IF Head(text) = E_ACUTE THEN <<LEAD, CONT>> ELSE <<Head(text)>>)
         \o Encode(Tail(text))

\* ------------------------------------------------------- String.split etc.

\* buffer.split('\n\n'): the pieces between the separators, left to right.
\* SplitFrom scans from index i, the current piece having begun at start.
RECURSIVE SplitFrom(_, _, _)
SplitFrom(text, start, i) ==
    IF i >= Len(text) THEN <<SubSeq(text, start, Len(text))>>
    ELSE IF text[i] = NL /\ text[i + 1] = NL
    THEN <<SubSeq(text, start, i - 1)>> \o SplitFrom(text, i + 2, i + 2)
    ELSE SplitFrom(text, start, i + 1)

Split(text) == SplitFrom(text, 1, 1)

\* The lines of a segment (split at every single newline).
RECURSIVE LinesFrom(_, _, _)
LinesFrom(text, start, i) ==
    IF i > Len(text) THEN <<SubSeq(text, start, Len(text))>>
    ELSE IF text[i] = NL
    THEN <<SubSeq(text, start, i - 1)>> \o LinesFrom(text, i + 1, i + 1)
    ELSE LinesFrom(text, start, i + 1)

SplitLines(text) == LinesFrom(text, 1, 1)

Whitespace == {NL, " "}

\* !line.trim()
IsBlank(text) == \A i \in 1..Len(text) : text[i] \in Whitespace

\* line.match(/^<prefix>(.+)$/m): the capture of the first line that starts
\* with the prefix and has at least one more character, or NoMatch.
LineMatch(prefix, segment) ==
    LET ls == SplitLines(segment)
        hits == {i \in 1..Len(ls) : Len(ls[i]) >= 2 /\ ls[i][1] = prefix}
    IN  IF hits = {} THEN NoMatch
        ELSE Tail(ls[CHOOSE h \in hits : \A g \in hits : h <= g])

\* ------------------------------------------------------------- JSON.parse

Stages == <<"planning", "searching", "writing", "verifying">>
StageNames == {Stages[i] : i \in 1..Len(Stages)}

\* The result payload of the complete event of this model's backend.
Payload ==
    [short_summary |-> <<"Amazon", " ", "is", " ", "a", " ", "strong", " ", "buy">>,
     markdown_report |-> <<"# ", "Amazon", NL, NL, "Solid ", "growth">>,
     follow_up_questions |-> <<"What about AWS?">>,
     verification |-> [verified |-> TRUE, issues |-> "none"]]

\* A result whose summary names no company and no recommendation keyword.
PlainPayload == [Payload EXCEPT !.short_summary = <<"Hold", " ", "for", " ", "now">>]

\* The JSON documents of this model: a text and the value JSON.parse gives
\* for it.  A token abbreviates the characters it is written with.
JsonDocs ==
    {[text |-> <<"{stage:", s, ",done:false}">>, value |-> [stage |-> s, done |-> FALSE]]
        : s \in StageNames \cup {"review"}}
    \cup {[text |-> <<"{stage:", s, ",done:true}">>, value |-> [stage |-> s, done |-> TRUE]]
        : s \in StageNames \cup {"review"}}
    \cup {[text |-> <<"{agent:Planner,action:", "Plan searches", "}">>,
           value |-> [agent |-> "Planner", action |-> <<"Plan searches">>]],
          [text |-> <<"{agent:Writer,action:R", E_ACUTE, "sum", "}">>,
           value |-> [agent |-> "Writer", action |-> <<"R", E_ACUTE, "sum">>]],
          [text |-> <<"{agent:Writer,action:R", REPLACEMENT, REPLACEMENT, "sum", "}">>,
           value |-> [agent |-> "Writer", action |-> <<"R", REPLACEMENT, REPLACEMENT, "sum">>]],
          [text |-> <<"{short_summary:", "Amazon is a strong buy", ",...}">>,
           value |-> Payload],
          [text |-> <<"{short_summary:", "Hold for now", ",...}">>,
           value |-> PlainPayload],
          [text |-> <<"{message:", "Rate limit exceeded", "}">>,
           value |-> [message |-> "Rate limit exceeded"]],
          [text |-> <<"{}">>, value |-> [empty |-> TRUE]]}

\* JSON.parse(text): the value, or a SyntaxError thrown.
JsonParse(text) ==
    IF \E d \in JsonDocs : d.text = text
    THEN [ok |-> TRUE, value |-> (CHOOSE d \in JsonDocs : d.text = text).value]
    ELSE [ok |-> FALSE, value |-> [empty |-> TRUE]]

\* ------------------------------------------------------------ the backend

\* One SSE frame: event: <type>\n data: <json>\n \n
Frame(type, json) == <<EVENT_PREFIX, type, NL, DATA_PREFIX>> \o json \o <<NL, NL>>

StatusFrame(s, done) ==
    Frame("status", <<"{stage:", s, IF done THEN ",done:true}" ELSE ",done:false}">>)
PlannerLogFrame == Frame("agent_log", <<"{agent:Planner,action:", "Plan searches", "}">>)
WriterLogFrame == Frame("agent_log", <<"{agent:Writer,action:R", E_ACUTE, "sum", "}">>)
CompleteFrame == Frame("complete", <<"{short_summary:", "Amazon is a strong buy", ",...}">>)
PlainCompleteFrame == Frame("complete", <<"{short_summary:", "Hold for now", ",...}">>)
ErrorFrame == Frame("error", <<"{message:", "Rate limit exceeded", "}">>)
\* A well-formed record of a type the page does not know.
PingFrame == Frame("ping", <<"{}">>)
\* A record whose data line is not valid JSON.
MalformedFrame == Frame("status", <<"{stage:", "planning">>)
\* A segment with no event:/data: pair (an SSE comment line).
CommentFrame == <<": keepalive", NL, NL>>

\* Stray blank lines between two records.
BlankFrame == <<NL, NL>>

WellFormedFrames ==
    {StatusFrame("planning", FALSE), StatusFrame("planning", TRUE),
     PlannerLogFrame, WriterLogFrame, CompleteFrame, ErrorFrame, PingFrame}
\* The frames that move a run's phase or a stage.
PhaseFrames == {StatusFrame("planning", TRUE), CompleteFrame, ErrorFrame}
\* Frames of every shape the read loop tells apart.
DecoderFrames ==
    {StatusFrame("planning", TRUE), StatusFrame("planning", FALSE), WriterLogFrame,
     CompleteFrame, PingFrame, MalformedFrame, CommentFrame}

\* The records of a run's progress: stages and agent activity, then the result.
EventFrames ==
    {StatusFrame("planning", FALSE), StatusFrame("planning", TRUE),
     StatusFrame("searching", FALSE), PlannerLogFrame, WriterLogFrame, CompleteFrame}

\* Records the page has a branch for, among segments it has none for.
SkipFrames ==
    {PingFrame, CommentFrame, BlankFrame, StatusFrame("planning", TRUE), PlannerLogFrame,
     CompleteFrame}

\* A whole research: each stage reported done, in pipeline order, then the
\* result.
PipelineFrames ==
    {StatusFrame(Stages[i], TRUE) : i \in 1..Len(Stages)}
        \cup {CompleteFrame, PlainCompleteFrame}

\* Every frame a backend of this model writes.
Frames ==
    WellFormedFrames \cup {MalformedFrame, CommentFrame} \cup EventFrames
        \cup PipelineFrames \cup SkipFrames

\* --------------------------------------------------------- the page (DOM)

\* String.prototype.toLowerCase on the words of this model.
ToLowerCase(word) ==
    CASE word = "Amazon" -> "amazon"
      [] word = "Apple" -> "apple"
      [] word = "Strong" -> "strong"
      [] word = "Buy" -> "buy"
      [] word = "Sell" -> "sell"
      [] word = "Hold" -> "hold"
      [] word = "We" -> "we"
      [] OTHER -> word

\* The keywords that are substrings of a lowercase word.
Within(word) ==
    CASE word = "strongly" -> {"strongly", "strong"}
      [] word = "unavoidable" -> {"unavoidable", "avoid"}
      [] OTHER -> {word}

\* text.toLowerCase().includes(keyword), a keyword being inside one word.
Includes(text, keyword) ==
    \E i \in 1..Len(text) : keyword \in Within(ToLowerCase(text[i]))

Companies == <<"amazon", "apple", "google", "microsoft", "tesla", "meta", "nvidia">>

\* company.charAt(0).toUpperCase() + company.slice(1)
\* The company as the list spells it.
CapitalizeNot(company) == company

Capitalize(company) ==
    CASE company = "amazon" -> "Amazon"
      [] company = "apple" -> "Apple"
      [] company = "google" -> "Google"
      [] company = "microsoft" -> "Microsoft"
      [] company = "tesla" -> "Tesla"
      [] company = "meta" -> "Meta"
      [] company = "nvidia" -> "Nvidia"
      [] OTHER -> company

extractCompanyName(query) ==
    LET hits == {i \in 1..Len(Companies) : Includes(query, Companies[i])}
    IN  IF hits = {} THEN "Company"
        ELSE Capitalize(Companies[CHOOSE h \in hits : \A g \in hits : h <= g])

\* A badge that looks for the Sell keywords first.
BadgeSellFirst(summary) ==
    IF Includes(summary, "sell") \/ Includes(summary, "negative") \/ Includes(summary, "avoid")
    THEN "Sell"
    ELSE IF Includes(summary, "buy") \/ Includes(summary, "strong")
            \/ Includes(summary, "positive")
    THEN "Buy"
    ELSE "Hold"

\* The recommendation badge of displayResults.
Badge(summary) ==
    IF Includes(summary, "buy") \/ Includes(summary, "strong") \/ Includes(summary, "positive")
    THEN "Buy"
    ELSE IF Includes(summary, "sell") \/ Includes(summary, "negative") \/ Includes(summary, "avoid")
    THEN "Sell"
    ELSE "Hold"

NoResults ==
    [stockName |-> "", badge |-> "", verified |-> "", recommendation |-> "",
     text |-> <<>>, report |-> <<>>, questions |-> <<>>, verification |-> "",
     issues |-> ""]

\* The header replacement of markdownToHtml on one-# headers: "# " at the
\* start of a line opens <h1>, the end of that line closes it.
RECURSIVE Headers(_, _, _)
Headers(markdown, atStart, open) ==
    IF markdown = <<>> THEN (IF open THEN <<"</h1>">> ELSE <<>>)
    ELSE IF Head(markdown) = NL
    THEN (IF open THEN <<"</h1>">> ELSE <<>>) \o <<NL>> \o Headers(Tail(markdown), TRUE, FALSE)
    ELSE IF Head(markdown) = "# " /\ atStart
    THEN <<"<h1>">> \o Headers(Tail(markdown), FALSE, TRUE)
    ELSE <<Head(markdown)>> \o Headers(Tail(markdown), FALSE, open)

\* html.replace(/\n\n/g, '</p><p>')
RECURSIVE Paragraphs(_)
Paragraphs(html) ==
    IF Len(html) >= 2 /\ html[1] = NL /\ html[2] = NL
    THEN <<"</p><p>">> \o Paragraphs(SubSeq(html, 3, Len(html)))
    ELSE IF html = <<>> THEN <<>>
    ELSE <<Head(html)>> \o Paragraphs(Tail(html))

markdownToHtml(markdown) == <<"<p>">> \o Paragraphs(Headers(markdown, TRUE, FALSE)) \o <<"</p>">>

\* The regions of the page the script writes.
InitialDom ==
    [progressDisplay |-> "none", resultsDisplay |-> "none", errorDisplay |-> "none",
     activityDisplay |-> "none", errorMessage |-> "", activityLog |-> <<>>,
     step |-> [s \in StageNames |-> {}],
     btnDisabled |-> FALSE, btnText |-> "Analyze",
     results |-> NoResults]

\* A stepper that, marking a stage, marks the stages before it completed.
updateProgressCascade(d, stage, isDone) ==
    IF stage \in StageNames
    THEN [d EXCEPT !.step = [s \in StageNames |->
             IF s = stage
             THEN (IF isDone THEN (@[s] \cup {"completed"}) \ {"active"}
                   ELSE @[s] \cup {"active"})
             ELSE IF \E i, j \in 1..Len(Stages) : Stages[i] = s /\ Stages[j] = stage /\ i < j
             THEN (@[s] \cup {"completed"}) \ {"active"}
             ELSE @[s]]]
    ELSE d

updateProgress(d, stage, isDone) ==
    IF stage \in StageNames
    THEN IF isDone
         THEN [d EXCEPT !.step[stage] = (@ \cup {"completed"}) \ {"active"}]
         ELSE [d EXCEPT !.step[stage] = @ \cup {"active"}]
    ELSE d

\* A log that puts the new entry first.
addActivityLogFirst(d, data) ==
    [d EXCEPT !.activityLog = <<[agent |-> data.agent, action |-> data.action]>> \o @]

\* container.appendChild(entry)
addActivityLog(d, data) ==
    [d EXCEPT !.activityLog = Append(@, [agent |-> data.agent, action |-> data.action])]

\* A rendering that adds the follow-up questions to the ones in the list.
displayResultsAppending(d, data) ==
    [d EXCEPT !.resultsDisplay = "block",
              !.results = [stockName |-> extractCompanyName(data.short_summary),
                           badge |-> Badge(data.short_summary),
                           verified |-> IF data.verification.verified THEN "Yes" ELSE "No",
                           recommendation |-> Badge(data.short_summary),
                           text |-> data.short_summary,
                           report |-> markdownToHtml(data.markdown_report),
                           questions |-> d.results.questions \o data.follow_up_questions,
                           verification |-> IF data.verification.verified
                                            THEN "Verification Passed"
                                            ELSE "Verification Issues Found",
                           issues |-> data.verification.issues]]

\* displayResults: every region is assigned; the question list is emptied
\* (innerHTML = '') and then filled, one appendChild per question.
displayResults(d, data) ==
    [d EXCEPT !.resultsDisplay = "block",
              !.results = [stockName |-> extractCompanyName(data.short_summary),
                           badge |-> Badge(data.short_summary),
                           verified |-> IF data.verification.verified THEN "Yes" ELSE "No",
                           recommendation |-> Badge(data.short_summary),
                           text |-> data.short_summary,
                           report |-> markdownToHtml(data.markdown_report),
                           questions |-> <<>> \o data.follow_up_questions,
                           verification |-> IF data.verification.verified
                                            THEN "Verification Passed"
                                            ELSE "Verification Issues Found",
                           issues |-> data.verification.issues]]

showError(d, message) ==
    [d EXCEPT !.errorMessage = message, !.errorDisplay = "block"]

\* A reset that leaves the results section as it is.
resetKeepsResults(d) ==
    [d EXCEPT !.progressDisplay = "none",
              !.errorDisplay = "none", !.activityDisplay = "none",
              !.activityLog = <<>>,
              !.step = [s \in StageNames |-> @[s] \ {"active", "completed"}],
              !.btnDisabled = FALSE, !.btnText = "Analyze"]

\* resetUI, but for the chart instance.
resetUI(d) ==
    [d EXCEPT !.progressDisplay = "none", !.resultsDisplay = "none",
              !.errorDisplay = "none", !.activityDisplay = "none",
              !.activityLog = <<>>,
              !.step = [s \in StageNames |-> @[s] \ {"active", "completed"}],
              !.btnDisabled = FALSE, !.btnText = "Analyze"]

\* ------------------------------------------- the click handler's read loop

\* A catch block that shows the banner and leaves the button as it is.
catchKeepsButton(d) ==
    showError(d, "An error occurred while processing your request. Please try again.")

\* The catch block of the click handler.
catchError(d) ==
    [showError(d, "An error occurred while processing your request. Please try again.")
        EXCEPT !.btnDisabled = FALSE, !.btnText = "Try Again"]

\* An if-chain with a last branch that reports a type it does not know.
dispatchUnknownFails(d, eventType, data) ==
    CASE eventType = <<"status">> -> updateProgress(d, data.stage, data.done)
      [] eventType = <<"agent_log">> -> addActivityLog(d, data)
      [] eventType = <<"complete">> ->
            [displayResults(d, data) EXCEPT !.btnDisabled = FALSE,
                                            !.btnText = "Analyze New Query"]
      [] OTHER ->
            [showError(d, "Unknown event") EXCEPT !.btnDisabled = FALSE,
                                                  !.btnText = "Try Again"]

\* The if-chain on eventType.
dispatch(d, eventType, data) ==
    CASE eventType = <<"status">> -> updateProgress(d, data.stage, data.done)
      [] eventType = <<"agent_log">> -> addActivityLog(d, data)
      [] eventType = <<"complete">> ->
            [displayResults(d, data) EXCEPT !.btnDisabled = FALSE,
                                            !.btnText = "Analyze New Query"]
      [] eventType = <<"error">> ->
            [showError(d, data.message) EXCEPT !.btnDisabled = FALSE,
                                               !.btnText = "Try Again"]
      [] OTHER -> d

\* One pass of the body of the for loop over the segments: the page after it,
\* whether JSON.parse threw, and the (type, data) record it handed to the
\* if-chain, if any.
processSegment(d, line) ==
    IF IsBlank(line) THEN [dom |-> d, threw |-> FALSE, events |-> <<>>]
    ELSE LET eventMatch == LineMatch(EVENT_PREFIX, line)
             dataMatch == LineMatch(DATA_PREFIX, line)
         IN  IF eventMatch # NoMatch /\ dataMatch # NoMatch
             THEN LET parsed == JsonParse(dataMatch)
                  IN  IF parsed.ok
                      THEN [dom |-> dispatch(d, eventMatch, parsed.value),
                            threw |-> FALSE,
                            events |-> <<[type |-> eventMatch, data |-> parsed.value]>>]
                      ELSE [dom |-> d, threw |-> TRUE, events |-> <<>>]
             ELSE [dom |-> d, threw |-> FALSE, events |-> <<>>]

\* The for loop: the segments in order, up to the first one that throws.
RECURSIVE processSegments(_, _)
processSegments(d, lines) ==
    IF lines = <<>> THEN [dom |-> d, threw |-> FALSE, events |-> <<>>]
    ELSE LET first == processSegment(d, Head(lines))
         IN  IF first.threw THEN first
             ELSE LET rest == processSegments(first.dom, Tail(lines))
                  IN  [rest EXCEPT !.events = first.events \o @]

\* A loop that keeps nothing for the next chunk.
PopNothing(lines) == <<>>

\* buffer = lines.pop(): what is kept for the next chunk.
Pop(lines) == Last(lines)

\* The segments the loop processes for one chunk: all but the popped one.
Complete(lines) == Front(lines)

\* A loop that flushes its buffer when the stream ends.
AtEndFlush(buffer) == <<buffer>>

\* if (done) break: the segments processed when the stream ends.
AtEnd(buffer) == <<>>

\* ------------------------------------------------------------------ state

VARIABLES
    dom,         \* the regions of the page
    nRuns,       \* click handlers entered so far; run nRuns is the current one
    pc,          \* pc[r]: where handler r is: "idle" (not entered), "fetch"
                 \* (awaiting fetch), "read" (awaiting reader.read()), "done"
                 \* (returned after the break), "caught" (returned from catch)
    buffer,      \* buffer[r]: the handler's local buffer
    pending,     \* pending[r]: the bytes its TextDecoder holds back
    wire,        \* wire[r]: bytes the backend wrote to stream r, not yet read
    nFrames,     \* the frames the backend wrote so far, over all streams
    received,    \* received[r]: history, the bytes reader r was given so far
    dispatched,  \* dispatched[r]: history, the (type, data) records handler r
                 \* handed to the if-chain, in order
    segments,    \* segments[r]: history, the segments the for loop of
                 \* handler r took, in order
    phase,       \* phase[r]: history, the phase of run r: "Idle", "Running",
                 \* and "Completed" or "Failed" by what ended it first
    session,     \* what this session's user and backend do at most: the
                 \* submissions, the frames written, and the kind of backend
    chart,       \* window.stockChartInstance, the chart instances not yet
                 \* destroyed (and whether new Chart ever gave one for a
                 \* canvas in use), and the chart container of the page
    chartLoad,   \* chartLoad[r]: the loadChart call of run r: "none",
                 \* "pending" (awaiting its fetch) or "settled", and the
                 \* canvas element it holds
    history      \* the history sidebar, the loadHistory and
                 \* loadHistoricalResearch calls awaiting their fetch, and
                 \* how many of each were started

mainVars ==
    <<dom, nRuns, pc, buffer, pending, wire, nFrames, received, dispatched, segments,
      phase, session>>
sideVars == <<chart, chartLoad, history>>
vars == <<mainVars, sideVars>>

\* query.trim()
RECURSIVE TrimStart(_)
TrimStart(text) ==
    IF text # <<>> /\ Head(text) \in Whitespace THEN TrimStart(Tail(text)) ELSE text
RECURSIVE TrimEnd(_)
TrimEnd(text) ==
    IF text # <<>> /\ Last(text) \in Whitespace THEN TrimEnd(Front(text)) ELSE text
Trim(text) == TrimEnd(TrimStart(text))

\* What the query input may hold when the button is clicked.
Queries ==
    {<<>>, <<" ">>,
     <<"Is", " ", "Amazon", " ", "a", " ", "good", " ", "investment?">>}

\* The record separators among the bytes in flight to reader r.
InFlight(r) == Len(Split(wire[r])) - 1

\* The phase of a run after the records `events` and, with `failed`, the
\* catch block: what ended it first decides.
RECURSIVE PhaseAfter(_, _, _)
PhaseAfter(ph, events, failed) ==
    IF ph # "Running" THEN ph
    ELSE IF events = <<>> THEN (IF failed THEN "Failed" ELSE ph)
    ELSE PhaseAfter(CASE Head(events).type = <<"complete">> -> "Completed"
                      [] Head(events).type = <<"error">> -> "Failed"
                      [] OTHER -> ph,
                    Tail(events), failed)

\* The frames a backend of the given kind writes.
Vocabulary(backend) ==
    CASE backend = "phase" -> PhaseFrames
      [] backend = "decoder" -> DecoderFrames
      [] backend = "events" -> EventFrames
      [] backend = "pipeline" -> PipelineFrames
      [] backend = "skips" -> SkipFrames
      [] OTHER -> Frames

\* Whether a backend of the given kind may write `frame` as its k-th frame:
\* the pipeline backend writes its frames in pipeline order, the others write
\* any frame of their vocabulary at any time.
InOrder(backend, k, frame) ==
    backend = "pipeline" =>
        IF k <= Len(Stages) THEN frame = StatusFrame(Stages[k], TRUE)
        ELSE frame \in {CompleteFrame, PlainCompleteFrame}

\* `network` is "splits" (a read gives any number of the bytes in flight) or
\* "whole" (a read gives all of them).
\* The words a stored summary is made of, each with the blank after it.
SummaryWords == {"Buy", "strongly", "positive", "Sell", "negative", "unavoidable", "Hold"}

\* A summary with keywords of both sets.
ExampleSummary ==
    <<"We", " ", "recommend", " ", "a", " ", "strong", " ", "buy", " ", "despite",
      " ", "some", " ", "negative", " ", "risk">>

Summaries ==
    UNION {[1..n -> SummaryWords] : n \in 1..MaxWords} \cup {ExampleSummary}

\* The results the history store may hold.
StoredResults ==
    {[Payload EXCEPT !.short_summary = summary, !.verification.verified = verified]
        : summary \in Summaries, verified \in BOOLEAN}

\* The page as loaded; `payload` is the result the history store holds.
PageLoaded(backend, network, maxRuns, maxFrames, payload) ==
    /\ session = [backend |-> backend, network |-> network,
                  maxRuns |-> maxRuns, maxFrames |-> maxFrames, payload |-> payload]
    /\ dom = InitialDom
    /\ nRuns = 0
    /\ pc = [r \in Runs |-> "idle"]
    /\ buffer = [r \in Runs |-> <<>>]
    /\ pending = [r \in Runs |-> <<>>]
    /\ wire = [r \in Runs |-> <<>>]
    /\ nFrames = 0
    /\ received = [r \in Runs |-> <<>>]
    /\ dispatched = [r \in Runs |-> <<>>]
    /\ segments = [r \in Runs |-> <<>>]
    /\ phase = [r \in Runs |-> "Idle"]
    /\ chart = [instance |-> 0, live |-> {}, shared |-> FALSE, canvas |-> 0,
                display |-> "block", placeholders |-> 0]
    /\ chartLoad = [r \in Runs |-> [state |-> "none", canvas |-> 0]]
    /\ history = [open |-> FALSE, list |-> "", listLoads |-> 0, detailLoads |-> 0,
                  lists |-> 0, details |-> 0]

InitWith(backend, network, maxRuns, maxFrames) ==
    PageLoaded(backend, network, maxRuns, maxFrames, Payload)

\* Several submissions, the backend writing the frames that move the phase.
Init == InitWith("phase", "splits", MaxRuns, MaxFrames)
\* One submission, the backend writing any frame.
InitOneRun == InitWith("decoder", "splits", 1, MaxStreamFrames)
\* One submission, the backend writing progress records.
InitEvents == InitWith("events", "splits", 1, MaxStreamFrames)
\* One submission, the backend writing records and segments to skip.
InitSkips == InitWith("skips", "splits", 1, MaxStreamFrames)
\* One submission, the backend writing one whole research.
InitPipeline == InitWith("pipeline", "splits", 1, Len(Stages) + 1)
\* No submission; the history store holds any one result.
InitRender == \E payload \in StoredResults : PageLoaded("none", "whole", 0, 0, payload)
\* The loaders beside the main stream.
InitSide == InitWith("phase", "whole", MaxSideRuns, MaxSideFrames)
\* Several submissions and their chart requests; the backend writes no frame.
InitChart == InitWith("phase", "whole", MaxChartRuns, 0)

\* ---------------------------------------------------------------- actions

\* if (window.stockChartInstance) { destroy(); = null }, of resetUI and of
\* loadChart.
destroyChart(c) == [c EXCEPT !.live = @ \ {c.instance}, !.instance = 0]

\* The part of the click handler before its first await: a click on the
\* button, which a disabled button does not deliver.  resetUI, then
\* loadChart up to its fetch, then the sections and the button.
StartRun(d) ==
    [resetUI(d) EXCEPT !.progressDisplay = "block", !.activityDisplay = "block",
                       !.btnDisabled = TRUE, !.btnText = "Analyzing..."]

Submit(query) ==
    /\ ~dom.btnDisabled
    /\ IF Trim(query) = <<>>
       THEN UNCHANGED vars
       ELSE /\ nRuns < session.maxRuns
            /\ nRuns' = nRuns + 1
            /\ dom' = StartRun(dom)
            /\ pc' = [pc EXCEPT ![nRuns + 1] = "fetch"]
            /\ phase' = [phase EXCEPT ![nRuns + 1] = "Running"]
            /\ chart' = destroyChart(chart)
            /\ chartLoad' = [chartLoad EXCEPT ![nRuns + 1] =
                                 [state |-> "pending", canvas |-> chart.canvas]]
            /\ UNCHANGED <<buffer, pending, wire, nFrames, received, dispatched,
                           segments, session, history>>

\* Handler r is left through the catch block: the page after it; the
\* handler's locals and its stream are gone.
Catches(r, d, events) ==
    /\ dom' = catchError(d)
    /\ pc' = [pc EXCEPT ![r] = "caught"]
    /\ phase' = [phase EXCEPT ![r] = PhaseAfter(@, events, TRUE)]
    /\ buffer' = [buffer EXCEPT ![r] = <<>>]
    /\ pending' = [pending EXCEPT ![r] = <<>>]
    /\ wire' = [wire EXCEPT ![r] = <<>>]
    /\ received' = [received EXCEPT ![r] = <<>>]
    /\ dispatched' = [dispatched EXCEPT ![r] = <<>>]
    /\ segments' = [segments EXCEPT ![r] = <<>>]

\* await fetch('/api/research') settles: with a response that is ok, with
\* one that is not, or rejected.
FetchOutcomes == {"ok", "not ok", "rejected"}

FetchSettles(r, outcome) ==
    /\ pc[r] = "fetch"
    /\ IF outcome = "ok"
       THEN /\ pc' = [pc EXCEPT ![r] = "read"]
            /\ buffer' = [buffer EXCEPT ![r] = <<>>]
            /\ UNCHANGED <<dom, pending, wire, received, dispatched, segments, phase>>
       ELSE Catches(r, dom, <<>>)
    /\ UNCHANGED <<nRuns, nFrames, session, sideVars>>

\* The backend writes one more frame to the open stream r.
ServerWrites(r, frame) ==
    /\ pc[r] = "read"
    /\ frame \in Vocabulary(session.backend)
    /\ InOrder(session.backend, nFrames + 1, frame)
    /\ nFrames < session.maxFrames
    /\ InFlight(r) < MaxInFlight
    /\ wire' = [wire EXCEPT ![r] = @ \o Encode(frame)]
    /\ nFrames' = nFrames + 1
    /\ UNCHANGED <<dom, nRuns, pc, buffer, pending, received, dispatched, segments,
                   phase, session, sideVars>>

\* await reader.read() gives the next n bytes: one pass of the while loop.
ReadChunk(r, n) ==
    /\ pc[r] = "read"
    /\ n <= Len(wire[r])
    /\ session.network = "whole" => n = Len(wire[r])
    /\ LET value == SubSeq(wire[r], 1, n)
           decoded == Decode(pending[r], value)
           lines == Split(buffer[r] \o decoded.text)
           loop == processSegments(dom, Complete(lines))
       IN  IF loop.threw
           THEN Catches(r, loop.dom, loop.events)
           ELSE /\ dom' = loop.dom
                /\ dispatched' = [dispatched EXCEPT ![r] = @ \o loop.events]
                /\ segments' = [segments EXCEPT ![r] = @ \o Complete(lines)]
                /\ phase' = [phase EXCEPT ![r] = PhaseAfter(@, loop.events, FALSE)]
                /\ wire' = [wire EXCEPT ![r] = SubSeq(@, n + 1, Len(@))]
                /\ received' = [received EXCEPT ![r] = @ \o value]
                /\ pending' = [pending EXCEPT ![r] = decoded.pending]
                /\ buffer' = [buffer EXCEPT ![r] = Pop(lines)]
                /\ UNCHANGED pc
    /\ UNCHANGED <<nRuns, nFrames, session, sideVars>>

\* await reader.read() gives done: the stream ended (after any byte the
\* backend wrote: a connection that closes early ends the stream there).
\* The handler returns; its locals are gone.
ReadDone(r) ==
    /\ pc[r] = "read"
    /\ LET loop == processSegments(dom, AtEnd(buffer[r]))
       IN  /\ dom' = loop.dom
           /\ dispatched' = [dispatched EXCEPT ![r] = @ \o loop.events]
           /\ segments' = [segments EXCEPT ![r] = @ \o AtEnd(buffer[r])]
           /\ phase' = [phase EXCEPT ![r] = PhaseAfter(@, loop.events, FALSE)]
    /\ pc' = [pc EXCEPT ![r] = "done"]
    /\ buffer' = [buffer EXCEPT ![r] = <<>>]
    /\ pending' = [pending EXCEPT ![r] = <<>>]
    /\ wire' = [wire EXCEPT ![r] = <<>>]
    /\ UNCHANGED <<nRuns, nFrames, received, session, sideVars>>

\* await reader.read() rejects: the connection dropped.
ReadFails(r) ==
    /\ pc[r] = "read"
    /\ Catches(r, dom, <<>>)
    /\ UNCHANGED <<nRuns, nFrames, session, sideVars>>

\* await reader.read() settles, with a chunk.
Reads(r) == \E n \in 1..Len(wire[r]) : ReadChunk(r, n)

\* ---------------------------------------------------- side-channel loaders

\* The fetch (and the response.json()) of the loadChart call of run r
\* settles: "rejected" (either one rejects), "not ok" (a non-success
\* response), "error" (a payload with an error field), "ok" (new Chart
\* gives an instance) or "in use" (new Chart throws, as the chart library
\* may when a chart that is not destroyed holds the same canvas).
ChartOutcomes == {"rejected", "not ok", "error", "ok", "in use"}

\* The canvas the call holds is the one in the document.
HoldsCurrentCanvas(r) == chartLoad[r].canvas = chart.canvas

\* A chart that is not destroyed holds the canvas of call r.
CanvasInUse(r) == \E c \in chart.live : chartLoad[c].canvas = chartLoad[r].canvas

loadChartSettles(r, outcome) ==
    /\ chartLoad[r].state = "pending"
    /\ outcome = "in use" => CanvasInUse(r)
    /\ chartLoad' = [chartLoad EXCEPT ![r].state = "settled"]
    /\ chart' =
          CASE outcome = "not ok" /\ HoldsCurrentCanvas(r) ->
                  \* canvas.style.display = 'none'; parent.innerHTML += ...:
                  \* the container is parsed anew, with a new canvas element
                  [chart EXCEPT !.display = "none", !.canvas = @ + 1,
                                !.placeholders = @ + 1]
            [] outcome = "ok" ->
                  [chart EXCEPT !.instance = r, !.live = @ \cup {r},
                                !.shared = @ \/ CanvasInUse(r),
                                !.display = IF HoldsCurrentCanvas(r) THEN "block" ELSE @]
            [] OTHER -> chart
    /\ UNCHANGED <<mainVars, history>>

\* toggleHistory: the sidebar opens and loadHistory starts, or it closes.
toggleHistory ==
    /\ IF history.open
       THEN history' = [history EXCEPT !.open = FALSE]
       ELSE /\ history.lists < MaxLoads
            /\ history' = [history EXCEPT !.open = TRUE, !.list = "loading",
                                          !.listLoads = @ + 1, !.lists = @ + 1]
    /\ UNCHANGED <<mainVars, chart, chartLoad>>

\* The fetch of a loadHistory call settles: with items, with none (also a
\* payload without a history field), or it fails.
HistoryOutcomes == {"items", "empty", "failed"}

loadHistorySettles(outcome) ==
    /\ history.listLoads > 0
    /\ history' = [history EXCEPT !.listLoads = @ - 1, !.list = outcome]
    /\ UNCHANGED <<mainVars, chart, chartLoad>>

\* A click on an item of the history list: loadHistoricalResearch starts.
clickHistoryItem ==
    /\ history.open
    /\ history.list = "items"
    /\ history.details < MaxLoads
    /\ history' = [history EXCEPT !.detailLoads = @ + 1, !.details = @ + 1]
    /\ UNCHANGED <<mainVars, chart, chartLoad>>

\* The fetch of a loadHistoricalResearch call settles: "ok" (the stored
\* result), "no result" (a JSON payload without the result's fields, as a
\* non-success response carries) or "rejected" (the fetch or json() rejects).
DetailOutcomes == {"ok", "no result", "rejected"}

loadHistoricalResearch(d, outcome, data) ==
    CASE outcome = "ok" -> displayResults(d, data)
      [] outcome = "no result" ->
            \* displayResults shows the section, then throws on the summary
            showError([d EXCEPT !.resultsDisplay = "block"],
                      "Failed to load historical research")
      [] OTHER -> showError(d, "Failed to load historical research")

loadHistoricalResearchSettles(outcome) ==
    /\ history.detailLoads > 0
    /\ history' = [history EXCEPT !.detailLoads = @ - 1,
                                  !.open = IF outcome = "rejected" THEN @ ELSE FALSE]
    /\ dom' = loadHistoricalResearch(dom, outcome, session.payload)
    /\ UNCHANGED <<nRuns, pc, buffer, pending, wire, nFrames, received, dispatched, segments,
                   phase, session, chart, chartLoad>>

\* ------------------------------------------------------------------ specs

Next ==
    \/ \E query \in Queries : Submit(query)
    \/ \E r \in Runs, outcome \in FetchOutcomes : FetchSettles(r, outcome)
    \/ \E r \in Runs, frame \in Frames : ServerWrites(r, frame)
    \/ \E r \in Runs : Reads(r)
    \/ \E r \in Runs : ReadDone(r)
    \/ \E r \in Runs : ReadFails(r)

NextSide ==
    \/ Next
    \/ \E r \in Runs, outcome \in ChartOutcomes : loadChartSettles(r, outcome)
    \/ toggleHistory
    \/ \E outcome \in HistoryOutcomes : loadHistorySettles(outcome)
    \/ clickHistoryItem
    \/ \E outcome \in DetailOutcomes : loadHistoricalResearchSettles(outcome)

\* The submissions, their research requests (streams without a frame) and
\* their chart requests.
NextChart ==
    \/ \E query \in Queries : Submit(query)
    \/ \E r \in Runs, outcome \in FetchOutcomes : FetchSettles(r, outcome)
    \/ \E r \in Runs : ReadDone(r)
    \/ \E r \in Runs : ReadFails(r)
    \/ \E r \in Runs, outcome \in ChartOutcomes : loadChartSettles(r, outcome)

\* The history sidebar alone.
NextHistory ==
    \/ toggleHistory
    \/ \E outcome \in HistoryOutcomes : loadHistorySettles(outcome)
    \/ clickHistoryItem
    \/ \E outcome \in DetailOutcomes : loadHistoricalResearchSettles(outcome)

\* The main stream alone (every loader's fetch stays pending).
Spec == Init /\ [][Next]_vars
SpecOneRun == InitOneRun /\ [][Next]_vars
SpecEvents == InitEvents /\ [][Next]_vars
SpecSkips == InitSkips /\ [][Next]_vars
SpecPipeline == InitPipeline /\ [][Next]_vars
SpecRender == InitRender /\ [][NextHistory]_vars
\* The main stream and the loaders.
SpecSide == InitSide /\ [][NextSide]_vars
\* The chart requests of successive submissions.
SpecChart == InitChart /\ [][NextChart]_vars

\* ------------------------------------------------------- decoder claims

\* What the loop hands to the if-chain when `bytes` arrive as one chunk.
OneChunk(bytes) ==
    processSegments(InitialDom, Complete(Split(Utf8(bytes).text))).events

\* `bytes` is a sequence of well-formed frames followed by the beginning of
\* one more (a well-formed body, or the part of one that has arrived).
RECURSIVE IsWellFormedPrefix(_)
IsWellFormedPrefix(bytes) ==
    \/ \E f \in WellFormedFrames : IsPrefix(bytes, Encode(f))
    \/ \E f \in WellFormedFrames :
          /\ IsPrefix(Encode(f), bytes)
          /\ IsWellFormedPrefix(SubSeq(bytes, Len(Encode(f)) + 1, Len(bytes)))

\* `bytes` up to and including its last record separator.
RECURSIVE UpToLastSeparator(_)
UpToLastSeparator(bytes) ==
    IF Len(bytes) < 2 THEN <<>>
    ELSE IF bytes[Len(bytes)] = NL /\ bytes[Len(bytes) - 1] = NL THEN bytes
    ELSE UpToLastSeparator(Front(bytes))

\* C2  Chunk-boundary invariance: whatever the chunks a well-formed body (or
\* the part of it received so far) arrived in, the records the read loop has
\* dispatched are, in order, the ones it dispatches when the same bytes
\* arrive as one chunk.
ChunkBoundaryInvariance ==
    \A r \in Runs :
        pc[r] = "read" /\ IsWellFormedPrefix(received[r])
            => dispatched[r] = OneChunk(received[r])

\* A chunk boundary fell inside the two-newline separator of the second
\* record of a well-formed body, after the first record was dispatched.
ChunkBoundaryWitness ==
    \E r \in Runs :
        /\ pc[r] = "read"
        /\ IsWellFormedPrefix(received[r])
        /\ Len(dispatched[r]) = 1
        /\ Len(buffer[r]) > 1
        /\ Last(buffer[r]) = NL
        /\ wire[r] # <<>> /\ Head(wire[r]) = NL

\* C7  A trailing partial record is never emitted: a stream that has ended
\* has dispatched exactly the records of its bytes up to the last separator.
TrailingPartialDiscarded ==
    \A r \in Runs :
        pc[r] = "done" => dispatched[r] = OneChunk(UpToLastSeparator(received[r]))

\* A stream ended inside its second record: the first one was dispatched.
TrailingPartialWitness ==
    \E r \in Runs :
        /\ pc[r] = "done"
        /\ Len(dispatched[r]) = 1
        /\ Len(received[r]) > Len(UpToLastSeparator(received[r])) + 4

\* The text holds a record separator: two newlines in a row.
HasSeparator(text) == \E i \in 1..(Len(text) - 1) : text[i] = NL /\ text[i + 1] = NL

\* C22  Decoder buffer invariant: whenever the loop waits for the next chunk,
\* the retained buffer holds no record separator and is the text of the
\* input received so far that follows its last separator, and the segments
\* the for loop took are, each once and in order, the segments before that
\* separator.
BufferInvariant ==
    \A r \in Runs :
        pc[r] = "read"
            => LET text == Utf8(received[r]).text
               IN  /\ ~HasSeparator(buffer[r])
                   /\ buffer[r] = Last(Split(text))
                   /\ segments[r] = Front(Split(text))

\* A chunk ended on the third of four newlines in a row: the record before
\* them was taken, the lone newline is retained and the fourth is on the way.
BufferWitness ==
    \E r \in Runs :
        /\ pc[r] = "read"
        /\ buffer[r] = <<NL>>
        /\ Len(segments[r]) = 1 /\ Len(dispatched[r]) = 1
        /\ wire[r] # <<>> /\ Head(wire[r]) = NL

\* ------------------------------------------------------ run state claims

\* The regions the main stream's dispatcher writes.
MainRegions(d) ==
    <<d.step, d.activityLog, d.resultsDisplay, d.results, d.errorDisplay,
      d.errorMessage, d.btnDisabled, d.btnText>>

\* Handler r takes a step: a fetch or a read of its settles.
StepOf(r) == <<pc[r], received[r], dispatched[r]>>' # <<pc[r], received[r], dispatched[r]>>

\* The page right after a submit's reset.
FreshRun(d) ==
    /\ d.activityLog = <<>>
    /\ \A s \in StageNames : d.step[s] = {}
    /\ d.resultsDisplay = "none"
    /\ d.errorDisplay = "none"
    /\ d.btnDisabled

\* C8  Submit performs a full reset: right after any submit with a non-empty
\* query the log is empty, the four stages are pending, neither the result
\* panel nor the error banner is shown, the control is disabled and the new
\* run is Running.
SubmitResets ==
    [][nRuns' # nRuns => FreshRun(dom') /\ phase'[nRuns'] = "Running"]_vars

\* A second run was submitted after the first one completed (with its result
\* panel shown and a stage marked), and the page is fresh.
SubmitResetsWitness ==
    /\ nRuns = 2
    /\ pc[2] = "fetch"
    /\ phase[1] = "Completed"
    /\ Len(dispatched[1]) = 2
    /\ FreshRun(dom)

\* The step is the transport of stream r failing: the initial response is
\* not ok, the fetch is rejected, or a read is rejected.
TransportFails(r) ==
    \/ FetchSettles(r, "not ok")
    \/ FetchSettles(r, "rejected")
    \/ ReadFails(r)

\* C10  A transport-level failure of the main stream while the run is
\* Running puts it in Failed: the error banner is shown and the submit
\* control is enabled again, labelled for a retry.
TransportFailureFails ==
    [][\A r \in Runs :
          phase[r] = "Running" /\ TransportFails(r)
              => /\ phase'[r] = "Failed"
                 /\ dom'.errorDisplay = "block"
                 /\ ~dom'.btnDisabled
                 /\ dom'.btnText = "Try Again"]_vars

\* The connection of the current run dropped after a record of it was
\* dispatched; the banner is up and the control enabled.
TransportFailureWitness ==
    /\ nRuns = 1
    /\ pc[1] = "caught"
    /\ phase[1] = "Failed"
    /\ nFrames > 0
    /\ "completed" \in dom.step["planning"]
    /\ dom.errorDisplay = "block"
    /\ ~dom.btnDisabled

\* C1  Generation guard: once a newer run has been submitted, no step of the
\* handler of an earlier run (a record it dispatches, a failure it catches)
\* changes the stages, the log, the result panel, the error banner or the
\* submit control.
GenerationGuard ==
    [][\A r \in Runs :
          r < nRuns /\ nRuns' = nRuns /\ StepOf(r)
              => MainRegions(dom') = MainRegions(dom)]_vars

\* C3  A record whose data line is not valid JSON is skipped: the pass of
\* the read loop that meets it leaves the handler reading, and shows the
\* error banner only for an error record it dispatched.
MalformedRecordSkipped ==
    [][\A r \in Runs :
          Reads(r)
              => /\ pc'[r] = "read"
                 /\ dom'.errorDisplay = "block"
                        => \/ dom.errorDisplay = "block"
                           \/ \E i \in (Len(dispatched[r]) + 1)..Len(dispatched'[r]) :
                                  dispatched'[r][i].type = <<"error">>]_vars

\* C4  A terminal run is never reopened or re-terminated: while the one run
\* of the session is Completed the error banner is not shown and the control
\* keeps its new-query label, and while it is Failed no result is shown.
TerminalNeverReopened ==
    /\ phase[1] = "Completed"
           => dom.errorDisplay = "none" /\ dom.btnText = "Analyze New Query"
    /\ phase[1] = "Failed" => dom.resultsDisplay = "none"

\* C5  While the current run is Running the submit control is disabled.
RunningImpliesDisabled ==
    nRuns >= 1 /\ phase[nRuns] = "Running" => dom.btnDisabled

\* C6  A stage marked done is not active.
DoneStageNeverActive ==
    \A s \in StageNames : "completed" \in dom.step[s] => "active" \notin dom.step[s]

\* ------------------------------------------------------------ side loaders

\* The step is a side loader failing: a chart, a history list or a history
\* detail request that is rejected, answered without success, or answered
\* with a payload that lacks the data.
LoaderFails ==
    \/ \E r \in Runs, outcome \in {"rejected", "not ok", "error"} :
          loadChartSettles(r, outcome)
    \/ loadHistorySettles("failed")
    \/ \E outcome \in {"no result", "rejected"} : loadHistoricalResearchSettles(outcome)

\* C9  A failure of a side loader never reaches the main run: it leaves the
\* run phases, the stages, the activity log, the error banner and the submit
\* control as they were.
LoaderFailureContained ==
    [][LoaderFails
          => /\ phase' = phase
             /\ dom'.step = dom.step
             /\ dom'.activityLog = dom.activityLog
             /\ dom'.errorDisplay = dom.errorDisplay
             /\ dom'.errorMessage = dom.errorMessage
             /\ dom'.btnDisabled = dom.btnDisabled
             /\ dom'.btnText = dom.btnText]_vars

\* ------------------------------------------------------- progress records

\* The records handler r hands to the if-chain in this step.
NewRecords(r) == SubSeq(dispatched'[r], Len(dispatched[r]) + 1, Len(dispatched'[r]))

\* Handler r was given a chunk and its pass of the loop went through.
PassOf(r) == pc[r] = "read" /\ pc'[r] = "read" /\ received'[r] # received[r]

StatusRecord(s, done) == [type |-> <<"status">>, data |-> [stage |-> s, done |-> done]]

\* C11  A status record naming stage s changes s only: a pass of the read
\* loop leaves every stage no new status record names as it was, and a stage
\* the last new record about it reports done carries the done marker and not
\* the active one, a stage it reports not done carries the active marker.
\* After status(planning, active), status(planning, done), status(searching,
\* active) the stages are planning done, searching active, the others pending.
StatusFrameEffect ==
    [][\A r \in Runs :
          PassOf(r) =>
             /\ \A s \in StageNames :
                   LET new == NewRecords(r)
                       about == {i \in 1..Len(new) :
                                    new[i].type = <<"status">> /\ new[i].data.stage = s}
                   IN  IF about = {} THEN dom'.step[s] = dom.step[s]
                       ELSE LET last == new[CHOOSE i \in about : \A j \in about : j <= i]
                            IN  IF last.data.done
                                THEN "completed" \in dom'.step[s] /\ "active" \notin dom'.step[s]
                                ELSE "active" \in dom'.step[s]
             /\ dispatched'[r] = <<StatusRecord("planning", FALSE),
                                   StatusRecord("planning", TRUE),
                                   StatusRecord("searching", FALSE)>>
                   => dom'.step = [s \in StageNames |->
                                     CASE s = "planning" -> {"completed"}
                                       [] s = "searching" -> {"active"}
                                       [] OTHER -> {}]]_vars

\* The three status records of the example were dispatched, in that order.
StatusFrameWitness ==
    /\ pc[1] = "read"
    /\ dispatched[1] = <<StatusRecord("planning", FALSE), StatusRecord("planning", TRUE),
                         StatusRecord("searching", FALSE)>>
    /\ dom.step["planning"] = {"completed"}
    /\ dom.step["searching"] = {"active"}

\* The entries the agent_log records among `events` make, in order.
RECURSIVE LogOf(_)
LogOf(events) ==
    IF events = <<>> THEN <<>>
    ELSE (IF Head(events).type = <<"agent_log">>
          THEN <<[agent |-> Head(events).data.agent, action |-> Head(events).data.action]>>
          ELSE <<>>) \o LogOf(Tail(events))

\* C13  Within a run the activity log is append-only and in arrival order:
\* no step but a submit removes or reorders entries, and the log of a handler
\* that is reading (or has returned at the end of its stream) holds one entry
\* per agent_log record it dispatched, in the order of the stream.
LogAppendOnly ==
    [][nRuns' = nRuns =>
          /\ IsPrefix(dom.activityLog, dom'.activityLog)
          /\ \A r \in Runs : pc'[r] \in {"read", "done"}
                => dom'.activityLog = LogOf(dispatched'[r])]_vars

\* Two different agent_log records and a status record were dispatched; the
\* log holds the two entries in the order of the stream.
LogAppendWitness ==
    /\ Len(dispatched[1]) = 3
    /\ Len(dom.activityLog) = 2
    /\ dom.activityLog[1].agent = "Planner"
    /\ dom.activityLog[2].agent = "Writer"

\* C12  A terminal phase re-enables the control with a label that tells the
\* outcome, until the next submit: while the one run of the session is
\* Completed the control is enabled and reads 'Analyze New Query', while it
\* is Failed the control is enabled and reads 'Try Again'.
LabelTellsOutcome ==
    /\ phase[1] = "Completed" => ~dom.btnDisabled /\ dom.btnText = "Analyze New Query"
    /\ phase[1] = "Failed" => ~dom.btnDisabled /\ dom.btnText = "Try Again"

\* The step is the request of a side loader settling, with success or not.
LoaderSettles ==
    \/ \E r \in Runs, outcome \in ChartOutcomes : loadChartSettles(r, outcome)
    \/ \E outcome \in HistoryOutcomes : loadHistorySettles(outcome)
    \/ \E outcome \in DetailOutcomes : loadHistoricalResearchSettles(outcome)

\* C14  The side loaders and the main stream write disjoint regions: no load
\* of a chart, of the history list or of a history detail writes the result
\* panel, the error banner, the stages or the activity log.
LoadersWriteOwnRegions ==
    [][LoaderSettles
          => /\ dom'.resultsDisplay = dom.resultsDisplay
             /\ dom'.results = dom.results
             /\ dom'.errorDisplay = dom.errorDisplay
             /\ dom'.errorMessage = dom.errorMessage
             /\ dom'.step = dom.step
             /\ dom'.activityLog = dom.activityLog]_vars

\* ------------------------------------------------------------- end to end

\* The records of a whole research with result `data`.
PipelineRecords(data) ==
    [i \in 1..Len(Stages) |-> StatusRecord(Stages[i], TRUE)]
        \o << [type |-> <<"complete">>, data |-> data] >>

\* The run of the session was submitted with the Amazon query and its
\* handler dispatched the records of a whole research with result `data`.
WholeResearch(data) == nRuns = 1 /\ dispatched[1] = PipelineRecords(data)

AllStagesDone == \A s \in StageNames : dom.step[s] = {"completed"}

BuyWords == {"buy", "strong", "positive"}
SellWords == {"sell", "negative", "avoid"}

\* The lowercased summary contains one of the keywords.
Mentions(summary, keywords) == \E k \in keywords : Includes(summary, k)

\* The page shows the stored result, rendered.
Rendered == dom.resultsDisplay = "block" /\ dom.results.text = session.payload.short_summary

\* C16  Recommendation with Buy priority: the badge of a rendered summary is
\* Buy when the summary contains buy, strong or positive; otherwise Sell when
\* it contains sell, negative or avoid; otherwise Hold.
RecommendationBuyPriority ==
    Rendered =>
        dom.results.badge =
            IF Mentions(dom.results.text, BuyWords) THEN "Buy"
            ELSE IF Mentions(dom.results.text, SellWords) THEN "Sell"
            ELSE "Hold"

\* The summary with keywords of both sets is rendered with the badge Buy.
RecommendationWitness ==
    /\ Rendered
    /\ dom.results.text = ExampleSummary
    /\ Mentions(dom.results.text, SellWords)
    /\ dom.results.badge = "Buy"

\* C18  Rendering is idempotent: on every page, displayResults applied twice
\* to a result gives the page displayResults applied once gives.
RenderIdempotent ==
    \A data \in {session.payload, Payload, PlainPayload} :
        displayResults(displayResults(dom, data), data) = displayResults(dom, data)

\* The stored result is rendered, its question in the list: rendering it
\* once more leaves one question there.
RenderIdempotentWitness ==
    /\ Rendered
    /\ dom.results.questions = session.payload.follow_up_questions
    /\ Len(displayResults(dom, session.payload).results.questions) = 1
    /\ dom.results.report = <<"<p>", "<h1>", "Amazon", "</h1>", "</p><p>", "Solid ", "growth", "</p>">>

\* ------------------------------------------------------- skipped segments

\* The segments the page has no branch for.
Skipped == {PingFrame, CommentFrame, BlankFrame}

\* `bytes` without the whole frames of it that are in Skipped.
RECURSIVE DropSkipped(_)
DropSkipped(bytes) ==
    IF \E f \in SkipFrames : IsPrefix(Encode(f), bytes)
    THEN LET f == CHOOSE g \in SkipFrames : IsPrefix(Encode(g), bytes)
             rest == DropSkipped(SubSeq(bytes, Len(Encode(f)) + 1, Len(bytes)))
         IN  IF f \in Skipped THEN rest ELSE Encode(f) \o rest
    ELSE bytes

\* The page of a run after the read loop was given `bytes` as one chunk.
PageAfter(bytes) ==
    processSegments(StartRun(InitialDom), Complete(Split(Utf8(bytes).text))).dom

\* C17  Records that map to no transition are ignored without failing the
\* stream: the stages, the log, the result, the error banner and the control
\* of a handler that is reading (or has returned at the end of its stream)
\* are those of the same stream without its records of an unknown type, its
\* segments with no event:/data: pair and its blank segments.
UnmappedRecordsIgnored ==
    pc[1] \in {"read", "done"}
        => MainRegions(dom) = MainRegions(PageAfter(DropSkipped(received[1])))

\* A stream began with a comment segment and a record of an unknown type;
\* the status record after them was processed.
UnmappedRecordsWitness ==
    /\ pc[1] = "read"
    /\ IsPrefix(Encode(CommentFrame \o PingFrame), received[1])
    /\ Len(dispatched[1]) = 2
    /\ dispatched[1][1].type = <<"ping">>
    /\ dom.step["planning"] = {"completed"}
    /\ dom.errorDisplay = "none"

\* ------------------------------------------------------------------ chart

\* C19  Submit's reset detaches the chart artefacts of earlier runs: right
\* after a submit there is no chart instance and no 'No Data' placeholder in
\* the chart container.
SubmitDetachesChart ==
    [][nRuns' # nRuns => chart'.instance = 0 /\ chart'.placeholders = 0]_vars

\* C21  At most one chart instance is alive at any time and it is the one
\* held in window.stockChartInstance, under every interleaving of the chart
\* requests of successive submissions.  Stated for every chart library, also
\* one that refuses a canvas a live chart holds: as long as new Chart gave no
\* instance for a canvas in use, every live instance is the one the window
\* holds.
SingleChartInstance ==
    ~chart.shared => chart.live \subseteq {chart.instance}

\* ------------------------------------------------------------- liveness

\* The event loop runs a handler whose awaited promise settles: a fetch that
\* is awaited settles, and every response body comes to its end or fails, so
\* a handler that keeps reading meets `done` or a rejection.  The user is not
\* obliged to submit, nor the backend to write.
Fairness ==
    \A r \in Runs :
        /\ WF_vars(\E outcome \in FetchOutcomes : FetchSettles(r, outcome))
        /\ WF_vars(ReadDone(r) \/ ReadFails(r))

\* One submission, the backend writing the frames that move the phase.
InitLive == InitWith("phase", "splits", 1, MaxStreamFrames)

SpecLive == InitLive /\ [][Next]_vars /\ Fairness

\* C20  A run leaves Running once its stream has ended: when the read loop
\* meets the end of the stream, the submit control is eventually enabled.
StreamEndReenables ==
    (pc[1] = "done") ~> ~dom.btnDisabled
====
